---- MODULE Spec2Model ----
(***************************************************************************)
(* GamepadManager (src/gamepad-manager.js): device registry, sampling      *)
(* loop, change detector and callback slots, together with the host        *)
(* environment it talks to (navigator.getGamepads, the gamepadconnected /  *)
(* gamepaddisconnected event queue and requestAnimationFrame).             *)
(*                                                                         *)
(* Analog values (button value, axis value) are integers in hundredths:    *)
(* 15 is 0.15, 100 is 1.0.  JavaScript runs one task at a time, so a task  *)
(* (a frame callback, an event listener, a call from application code) is  *)
(* one action; it is cut only where the manager invokes a registered       *)
(* handler, because the handler is application code that may call back     *)
(* into the manager before it returns.                                     *)
(***************************************************************************)
EXTENDS Integers, Sequences, FiniteSets, TLC

VARIABLES
    host,           \* navigator.getGamepads(): slot -> gamepad object or NoPad
    notes,          \* host events queued for the window listeners
    pending,        \* requestAnimationFrame requests not yet fired or cancelled
    gamepads,       \* this.gamepads: the keys of the Map, in insertion order
    activeGamepad,  \* this.activeGamepad
    isRunning,      \* this.isRunning
    rafId,          \* this.rafId
    callbacks,      \* this.callbacks
    buttonStates,   \* this.buttonStates
    axisStates,     \* this.axisStates
    stack,          \* the JavaScript call stack of the task being run
    log,            \* events detected by the task being run (or last run)
    effects,        \* playEffect() calls the platform has not settled yet
    outcome,        \* what the last settled testVibration() call returned
    reply,          \* what the last query of the app returned
    down,           \* buttons whose latest event, since the disconnect, is a press
    announced,      \* devices with a connect event and no disconnect event since
    reported        \* the value of the latest axis-change event of each axis

vars == <<host, notes, pending, gamepads, activeGamepad, isRunning, rafId,
          callbacks, buttonStates, axisStates, stack, log, down, announced, reported, effects, outcome, reply>>

-----------------------------------------------------------------------------
(* Bounds *)

NumSlots == 3       \* length of the array navigator.getGamepads() returns
MaxNotes == 2       \* host events waiting for their listener
MaxPending == 2     \* frame requests waiting at the same time
MaxPolls == 2       \* poll() activations on the call stack at the same time
MaxEffects == 2     \* playEffect() calls in flight at the same time
MaxIndex == 20      \* largest button or axis index a name is asked for
MaxLog == 8         \* events and pass markers recorded for one task

-----------------------------------------------------------------------------
(* Values *)

Null == -1                      \* JavaScript null (an index is never negative)
Undefined == -2                 \* undefined, where a number is expected
NoHandler == 0                  \* an empty callback slot
STICK_DEAD_ZONE == 15           \* 0.15
TRIGGER_DEAD_ZONE == 5          \* 0.05, declared and never read
AXIS_CHANGE == 2                \* the literal 0.02

Slots == 0 .. (NumSlots - 1)
RafIds == 1 .. (MaxPending + 1)  \* enough for a fresh id below the cap
CallbackSlots == {"onConnect", "onDisconnect", "onUpdate",
                  "onButtonPress", "onButtonRelease", "onAxisChange"}

NoActuator == [type |-> "none"] \* vibrationActuator of a device without one
DualRumble == [type |-> "dual-rumble"]
NoPad == [index |-> Null]       \* an empty slot of getGamepads()

Abs(v) == IF v < 0 THEN -v ELSE v

Released == [pressed |-> FALSE, value |-> 0]

Pad(i, id, btns, axs, ts, vib) ==
    [index |-> i, id |-> id, connected |-> TRUE, timestamp |-> ts,
     buttons |-> btns, axes |-> axs, vibrationActuator |-> vib]

(* Map operations on a function whose domain is the key set *)
MapSet(m, k, v) == [x \in (DOMAIN m) \cup {k} |-> IF x = k THEN v ELSE m[x]]
MapDeleteNone(m, k) == m
MapDelete(m, k) == [x \in (DOMAIN m) \ {k} |-> m[x]]
MapGet(m, k, dflt) == IF k \in DOMAIN m THEN m[k] ELSE dflt

(* Map keys in insertion order: set() of a present key keeps its place *)
KeysHas(ks, k) == \E n \in 1 .. Len(ks) : ks[n] = k
KeysSet(ks, k) == IF KeysHas(ks, k) THEN ks ELSE Append(ks, k)
KeysDelete(ks, k) == SelectSeq(ks, LAMBDA x : x # k)
KeySet(ks) == {ks[n] : n \in 1 .. Len(ks)}

(* array[j] = v on a dense array, j at most one past its end *)
ArraySet(a, j, v) == IF j <= Len(a) THEN [a EXCEPT ![j] = v] ELSE Append(a, v)

-----------------------------------------------------------------------------
(* Pure functions of the manager *)

DeadZoneTrigger(v) == IF Abs(v) > TRIGGER_DEAD_ZONE THEN v ELSE 0

DeadZoneInclusive(v) == IF Abs(v) >= STICK_DEAD_ZONE THEN v ELSE 0

(* Math.abs(value) > this.STICK_DEAD_ZONE ? value : 0 *)
DeadZone(v) == IF Abs(v) > STICK_DEAD_ZONE THEN v ELSE 0

AxisChangedRaw(value, prevValue) == Abs(value - prevValue) > AXIS_CHANGE

(* Math.abs(adjustedValue - adjustedPrevValue) > 0.02 *)
AxisChanged(value, prevValue) ==
    Abs(DeadZone(value) - DeadZone(prevValue)) > AXIS_CHANGE

ButtonNames == <<"A", "B", "X", "Y", "LB", "RB", "LT", "RT", "Back", "Start",
                 "LS", "RS", "Guide", "Share", "Touchpad">>
AxisNames == <<"LS-X", "LS-Y", "RS-X", "RS-Y", "LT", "RT">>

getButtonName(gamepadIndex, buttonIndex) ==
    IF buttonIndex \in 0 .. (Len(ButtonNames) - 1)
    THEN ButtonNames[buttonIndex + 1]
    ELSE "Btn " \o ToString(buttonIndex)

getAxisNameSticks(gamepadIndex, axisIndex) ==
    IF axisIndex \in 0 .. 3 THEN AxisNames[axisIndex + 1]
    ELSE "Axis " \o ToString(axisIndex)

getAxisName(gamepadIndex, axisIndex) ==
    IF axisIndex \in 0 .. (Len(AxisNames) - 1)
    THEN AxisNames[axisIndex + 1]
    ELSE "Axis " \o ToString(axisIndex)

getGamepadState(gp) ==
    [index |-> gp.index, id |-> gp.id, timestamp |-> gp.timestamp,
     connected |-> gp.connected,
     buttons |-> [j \in 1 .. Len(gp.buttons) |->
                    [index |-> j - 1, name |-> getButtonName(gp.index, j - 1),
                     pressed |-> gp.buttons[j].pressed,
                     value |-> gp.buttons[j].value]],
     axes |-> [j \in 1 .. Len(gp.axes) |->
                    [index |-> j - 1, name |-> getAxisName(gp.index, j - 1),
                     value |-> DeadZone(gp.axes[j]), rawValue |-> gp.axes[j]]],
     vibration |-> IF gp.vibrationActuator # NoActuator
                   THEN [supported |-> TRUE, type |-> gp.vibrationActuator.type]
                   ELSE [supported |-> FALSE]]

(* !this.activeGamepad: null and the index 0 are both falsy *)
NoActive(a) == a = Null \/ a = 0

-----------------------------------------------------------------------------
(* The manager's state as one value, so that a task can be run to its next *)
(* handler invocation (or to its end) inside one action.  ok is FALSE when *)
(* the run would pass a bound of the model; such a run is not taken.       *)

St == [gamepads |-> gamepads, activeGamepad |-> activeGamepad,
       isRunning |-> isRunning, rafId |-> rafId, callbacks |-> callbacks,
       buttonStates |-> buttonStates, axisStates |-> axisStates,
       pending |-> pending, stack |-> stack, log |-> log, ok |-> TRUE]

Top(s) == s.stack[Len(s.stack)]
Pop(s) == [s EXCEPT !.stack = SubSeq(@, 1, Len(@) - 1)]
SetTop(s, f) == [s EXCEPT !.stack[Len(s.stack)] = f]
Push(s, f) == [s EXCEPT !.stack = Append(@, f)]

PollFrame == [k |-> "poll", pc |-> "begin", i |-> 0, j |-> 0]
HandlerFrame(slot) == [k |-> "handler", slot |-> slot]

(* poll() activations that are past their isRunning check *)
Passes(stk) == {n \in 1 .. Len(stk) : stk[n].k = "poll" /\ stk[n].pc # "begin"}
Polls(stk) == {n \in 1 .. Len(stk) : stk[n].k = "poll"}

(* A detected event: it is handed to the handler of its slot, if there is  *)
(* one (if (this.callbacks.onX) this.callbacks.onX(data)), and is gone     *)
(* otherwise.  The entry records the handler it went to.                   *)
Record(s, entry) ==
    IF Len(s.log) >= MaxLog THEN [s EXCEPT !.ok = FALSE]
    ELSE [s EXCEPT !.log = Append(@, entry)]

EmitQueued(s, slot, pad, data) ==
    Push(Record(s, [slot |-> slot, to |-> s.callbacks[slot], pad |-> pad,
                    data |-> data]),
         HandlerFrame(slot))

Emit(s, slot, pad, data) ==
    LET h == s.callbacks[slot]
        s1 == Record(s, [slot |-> slot, to |-> h, pad |-> pad, data |-> data])
    IN IF h # NoHandler THEN Push(s1, HandlerFrame(slot)) ELSE s1

(* Markers of passes and of start() / stop() calls, with the number of    *)
(* passes executing and the running flag at that moment                   *)
Mark(s, what) ==
    Record(s, [slot |-> what, to |-> NoHandler, pad |-> Null,
               data |-> [inside |-> Cardinality(Passes(s.stack)),
                         running |-> s.isRunning]])

-----------------------------------------------------------------------------
(* Device registry *)

initializeButtonStatesKeep(s, index, gp) ==
    IF index \in DOMAIN s.buttonStates THEN s
    ELSE [s EXCEPT !.buttonStates =
            MapSet(@, index, [j \in 1 .. Len(gp.buttons) |-> Released])]

initializeButtonStates(s, index, gp) ==
    [s EXCEPT !.buttonStates =
        MapSet(@, index, [j \in 1 .. Len(gp.buttons) |-> Released])]

initializeAxisStatesSkip(s, index, gp) == s

initializeAxisStates(s, index, gp) ==
    [s EXCEPT !.axisStates = MapSet(@, index, [j \in 1 .. Len(gp.axes) |-> 0])]

SetActiveOnConnectNever(a, index) == a
SetActiveOnConnect(a, index) == IF NoActive(a) THEN index ELSE a

handleGamepadConnected(s, gp) ==
    LET s1 == [s EXCEPT !.gamepads = KeysSet(@, gp.index),
                        !.activeGamepad = SetActiveOnConnect(@, gp.index)]
        s2 == initializeAxisStates(initializeButtonStates(s1, gp.index, gp),
                                   gp.index, gp)
    IN Emit(s2, "onConnect", gp.index,
            [index |-> gp.index, id |-> gp.id, buttons |-> Len(gp.buttons),
             axes |-> Len(gp.axes), timestamp |-> gp.timestamp])

ReElectLast(ks) == IF Len(ks) > 0 THEN ks[Len(ks)] ELSE Null
ReElectZero(ks) == IF Len(ks) > 0 THEN ks[1] ELSE 0

(* this.gamepads.size > 0 ? [...this.gamepads.keys()][0] : null *)
ReElect(ks) == IF Len(ks) > 0 THEN ks[1] ELSE Null

ActiveKept(a, index, ks) == a

ActiveAfterDisconnect(a, index, ks) == IF a = index THEN ReElect(ks) ELSE a

handleGamepadDisconnected(s, gp) ==
    LET index == gp.index
        ks == KeysDelete(s.gamepads, index)
        s1 == [s EXCEPT !.gamepads = ks,
                        !.buttonStates = MapDelete(@, index),
                        !.axisStates = MapDelete(@, index),
                        !.activeGamepad = ActiveAfterDisconnect(@, index, ks)]
    IN Emit(s1, "onDisconnect", index, [index |-> index, timestamp |-> gp.timestamp])

isConnected(s) == s.activeGamepad # Null /\ Len(s.gamepads) > 0
getGamepadCount(s) == Len(s.gamepads)

-----------------------------------------------------------------------------
(* Change detector: processGamepadInput, one button or axis at a time.  The *)
(* stored arrays are updated in place, after the handler (if any) returned. *)

PrevButton(s, index, j) ==
    LET prev == MapGet(s.buttonStates, index, <<>>)
    IN IF j <= Len(prev) THEN prev[j] ELSE Released

PrevAxis(s, index, j) ==
    LET prev == MapGet(s.axisStates, index, <<>>)
    IN IF j <= Len(prev) THEN prev[j] ELSE 0

IsPressLevel(button, prevState) == button.pressed

IsPress(button, prevState) == button.pressed /\ ~prevState.pressed
IsRelease(button, prevState) == ~button.pressed /\ prevState.pressed

DetectButton(s, gp, j) ==
    LET button == gp.buttons[j]
        prevState == PrevButton(s, gp.index, j)
    IN IF IsPress(button, prevState)
       THEN Emit(s, "onButtonPress", gp.index,
                 [index |-> j - 1,
                  button |-> getButtonName(gp.index, j - 1),
                  value |-> button.value, timestamp |-> gp.timestamp])
       ELSE IF IsRelease(button, prevState)
       THEN Emit(s, "onButtonRelease", gp.index,
                 [index |-> j - 1,
                  button |-> getButtonName(gp.index, j - 1),
                  timestamp |-> gp.timestamp])
       ELSE s

StoreButton(s, gp, j) ==
    [s EXCEPT !.buttonStates =
        MapSet(@, gp.index,
               ArraySet(MapGet(@, gp.index, <<>>), j,
                        [pressed |-> gp.buttons[j].pressed,
                         value |-> gp.buttons[j].value]))]

DetectAxis(s, gp, j) ==
    LET value == gp.axes[j]
        prevValue == PrevAxis(s, gp.index, j)
    IN IF AxisChanged(value, prevValue)
       THEN Emit(s, "onAxisChange", gp.index,
                 [index |-> j - 1, value |-> DeadZone(value),
                  rawValue |-> value, name |-> getAxisName(gp.index, j - 1),
                  timestamp |-> gp.timestamp])
       ELSE s

StoredAxisAdjusted(value) == DeadZone(value)

StoredAxis(value) == value

StoreAxis(s, gp, j) ==
    [s EXCEPT !.axisStates =
        MapSet(@, gp.index,
               ArraySet(MapGet(@, gp.index, <<>>), j, StoredAxis(gp.axes[j])))]

-----------------------------------------------------------------------------
(* Sampling loop *)

AutoConnectKeepActive(s, gp) ==
    [handleGamepadConnected(s, gp) EXCEPT !.activeGamepad = s.activeGamepad]

(* Auto-connect if not already connected:                                  *)
(* if (!this.gamepads.has(i)) this.handleGamepadConnected({ gamepad })     *)
AutoConnect(s, gp) == handleGamepadConnected(s, gp)

FreeRafIds(s) == RafIds \ (s.pending \cup {s.rafId})

(* this.rafId = requestAnimationFrame(() => this.poll()) *)
RequestFrameNever(s) == s

(* this.rafId = requestAnimationFrame(() => this.poll()) *)
RequestFrame(s) ==
    IF Cardinality(s.pending) >= MaxPending
    THEN [s EXCEPT !.ok = FALSE]
    ELSE LET id == CHOOSE x \in FreeRafIds(s) : \A y \in FreeRafIds(s) : x <= y
         IN [s EXCEPT !.rafId = id, !.pending = @ \cup {id}]

PollStepUpdateFirst(s) ==
    LET f == Top(s)
        gp == host[f.i]
    IN CASE f.pc = "begin" ->
              IF ~s.isRunning THEN Pop(s)
              ELSE SetTop(Mark(s, "passBegin"), [f EXCEPT !.pc = "slot", !.i = 0])
         [] f.pc = "slot" ->
              IF f.i >= NumSlots THEN SetTop(s, [f EXCEPT !.pc = "raf"])
              ELSE IF gp = NoPad THEN SetTop(s, [f EXCEPT !.i = @ + 1])
              ELSE IF ~KeysHas(s.gamepads, f.i)
              THEN AutoConnect(SetTop(s, [f EXCEPT !.pc = "update"]), gp)
              ELSE SetTop(s, [f EXCEPT !.pc = "update"])
         [] f.pc = "btn" ->
              IF f.j > Len(gp.buttons) THEN SetTop(s, [f EXCEPT !.pc = "axis", !.j = 1])
              ELSE DetectButton(SetTop(s, [f EXCEPT !.pc = "btnStore"]), gp, f.j)
         [] f.pc = "btnStore" ->
              SetTop(StoreButton(s, gp, f.j), [f EXCEPT !.pc = "btn", !.j = @ + 1])
         [] f.pc = "axis" ->
              IF f.j > Len(gp.axes) THEN SetTop(s, [f EXCEPT !.pc = "slot", !.i = @ + 1])
              ELSE DetectAxis(SetTop(s, [f EXCEPT !.pc = "axisStore"]), gp, f.j)
         [] f.pc = "axisStore" ->
              SetTop(StoreAxis(s, gp, f.j), [f EXCEPT !.pc = "axis", !.j = @ + 1])
         [] f.pc = "update" ->
              LET s1 == SetTop(s, [f EXCEPT !.pc = "btn", !.j = 1])
              IN IF f.i = s.activeGamepad /\ s.callbacks["onUpdate"] # NoHandler
                 THEN Emit(s1, "onUpdate", gp.index, getGamepadState(gp))
                 ELSE s1
         [] f.pc = "raf" -> Pop(Mark(RequestFrame(s), "passEnd"))

(* One step of the poll() activation on top of the stack *)
PollStep(s) ==
    LET f == Top(s)
        gp == host[f.i]
    IN CASE f.pc = "begin" ->
              IF ~s.isRunning THEN Pop(s)
              ELSE SetTop(Mark(s, "passBegin"), [f EXCEPT !.pc = "slot", !.i = 0])
         [] f.pc = "slot" ->
              IF f.i >= NumSlots THEN SetTop(s, [f EXCEPT !.pc = "raf"])
              ELSE IF gp = NoPad THEN SetTop(s, [f EXCEPT !.i = @ + 1])
              ELSE IF ~KeysHas(s.gamepads, f.i)
              THEN AutoConnect(SetTop(s, [f EXCEPT !.pc = "btn", !.j = 1]), gp)
              ELSE SetTop(s, [f EXCEPT !.pc = "btn", !.j = 1])
         [] f.pc = "btn" ->
              IF f.j > Len(gp.buttons) THEN SetTop(s, [f EXCEPT !.pc = "axis", !.j = 1])
              ELSE DetectButton(SetTop(s, [f EXCEPT !.pc = "btnStore"]), gp, f.j)
         [] f.pc = "btnStore" ->
              SetTop(StoreButton(s, gp, f.j), [f EXCEPT !.pc = "btn", !.j = @ + 1])
         [] f.pc = "axis" ->
              IF f.j > Len(gp.axes) THEN SetTop(s, [f EXCEPT !.pc = "update"])
              ELSE DetectAxis(SetTop(s, [f EXCEPT !.pc = "axisStore"]), gp, f.j)
         [] f.pc = "axisStore" ->
              SetTop(StoreAxis(s, gp, f.j), [f EXCEPT !.pc = "axis", !.j = @ + 1])
         [] f.pc = "update" ->
              LET s1 == SetTop(s, [f EXCEPT !.pc = "slot", !.i = @ + 1])
              IN IF f.i = s.activeGamepad /\ s.callbacks["onUpdate"] # NoHandler
                 THEN Emit(s1, "onUpdate", gp.index, getGamepadState(gp))
                 ELSE s1
         [] f.pc = "raf" -> Pop(Mark(RequestFrame(s), "passEnd"))

(* Run the task until it ends or a handler is entered *)
RECURSIVE Run(_)
Run(s) ==
    IF s.stack = <<>> \/ ~s.ok \/ Top(s).k = "handler" THEN s ELSE Run(PollStep(s))

(* this.poll() called: a new activation on the stack *)
pollAwaitsEffect(s) ==
    IF effects # <<>> THEN s
    ELSE IF Cardinality(Polls(s.stack)) >= MaxPolls
    THEN [s EXCEPT !.ok = FALSE]
    ELSE Push(s, PollFrame)

poll(s) ==
    IF Cardinality(Polls(s.stack)) >= MaxPolls
    THEN [s EXCEPT !.ok = FALSE]
    ELSE Push(s, PollFrame)

StartUnguarded(s) == FALSE

(* if (this.isRunning) return *)
StartGuard(s) == s.isRunning

start(s0) ==
    LET s == Mark(s0, "start")
    IN IF StartGuard(s) THEN s ELSE poll([s EXCEPT !.isRunning = TRUE])

stopForgets(s0) ==
    LET s == Mark(s0, "stop")
    IN [s EXCEPT !.isRunning = FALSE, !.pending = @ \ {s.rafId}, !.rafId = Null,
                 !.activeGamepad = Null]

stop(s0) ==
    LET s == Mark(s0, "stop")
    IN IF s.rafId # Null
       THEN [s EXCEPT !.isRunning = FALSE, !.pending = @ \ {s.rafId}, !.rafId = Null]
       ELSE [s EXCEPT !.isRunning = FALSE]

-----------------------------------------------------------------------------
(* Actions.  A task starts on an empty stack and empties the log. *)

(* The events a step adds: all those of a task that begins, or those     *)
(* that come after a handler returned into the task.                      *)
Added(r) ==
    IF stack = <<>> THEN r.log ELSE SubSeq(r.log, Len(log) + 1, Len(r.log))

(* The buttons that are down for the application after the event e *)
After(h, e) ==
    CASE e.slot = "onButtonPress" -> h \cup {<<e.pad, e.data.index>>}
      [] e.slot = "onButtonRelease" -> h \ {<<e.pad, e.data.index>>}
      [] e.slot = "onDisconnect" -> {x \in h : x[1] # e.pad}
      [] OTHER -> h

RECURSIVE Track(_, _)
Track(h, es) == IF es = <<>> THEN h ELSE Track(After(h, Head(es)), Tail(es))

(* The devices the application knows as connected after the event e *)
Announce(h, e) ==
    CASE e.slot = "onConnect" -> h \cup {e.pad}
      [] e.slot = "onDisconnect" -> h \ {e.pad}
      [] OTHER -> h

RECURSIVE Announced(_, _)
Announced(h, es) ==
    IF es = <<>> THEN h ELSE Announced(Announce(h, Head(es)), Tail(es))

(* The axis values the application holds after the event e: a connect   *)
(* or a disconnect of a device starts its axes afresh.                   *)
Report(h, e) ==
    CASE e.slot = "onAxisChange" -> MapSet(h, <<e.pad, e.data.index>>, e.data.value)
      [] e.slot \in {"onConnect", "onDisconnect"} ->
            [x \in {y \in DOMAIN h : y[1] # e.pad} |-> h[x]]
      [] OTHER -> h

RECURSIVE Reported(_, _)
Reported(h, es) ==
    IF es = <<>> THEN h ELSE Reported(Report(h, Head(es)), Tail(es))

Commit(r) ==
    /\ r.ok
    /\ down' = Track(down, Added(r))
    /\ announced' = Announced(announced, Added(r))
    /\ reported' = Reported(reported, Added(r))
    /\ gamepads' = r.gamepads
    /\ activeGamepad' = r.activeGamepad
    /\ isRunning' = r.isRunning
    /\ rafId' = r.rafId
    /\ callbacks' = r.callbacks
    /\ buttonStates' = r.buttonStates
    /\ axisStates' = r.axisStates
    /\ pending' = r.pending
    /\ stack' = r.stack
    /\ log' = r.log

Idle == stack = <<>>
InHandler == stack # <<>> /\ stack[Len(stack)].k = "handler"
Begin == [St EXCEPT !.log = <<>>]

(* The host fires a frame request: the callback () => this.poll() *)
Frame ==
    /\ Idle
    /\ \E id \in pending :
          Commit(Run(poll([Begin EXCEPT !.pending = @ \ {id}])))
    /\ UNCHANGED <<host, notes, effects, outcome, reply>>

(* The window listener of gamepadconnected / gamepaddisconnected *)
Notify ==
    /\ Idle
    /\ notes # <<>>
    /\ LET e == Head(notes)
       IN IF e.type = "gamepadconnected"
          THEN Commit(Run(handleGamepadConnected(Begin, e.gamepad)))
          ELSE Commit(Run(handleGamepadDisconnected(Begin, e.gamepad)))
    /\ notes' = Tail(notes)
    /\ UNCHANGED <<host, effects, outcome, reply>>

(* Application code calls start() / stop() between tasks *)
StartCall ==
    /\ Idle
    /\ Commit(Run(start(Begin)))
    /\ UNCHANGED <<host, notes, effects, outcome, reply>>

StopCall ==
    /\ Idle
    /\ Commit(stop(Begin))
    /\ UNCHANGED <<host, notes, effects, outcome, reply>>

RegisterKeepFirst(slot, h) ==
    /\ Idle
    /\ callbacks[slot] # h
    /\ Commit([Begin EXCEPT !.callbacks[slot] = IF @ = NoHandler THEN h ELSE @])
    /\ UNCHANGED <<host, notes, effects, outcome, reply>>

(* onConnect(cb), onUpdate(cb), ...: this.callbacks[slot] = cb *)
Register(slot, h) ==
    /\ Idle
    /\ callbacks[slot] # h
    /\ Commit([Begin EXCEPT !.callbacks[slot] = h])
    /\ UNCHANGED <<host, notes, effects, outcome, reply>>

(* A handler the manager invoked returns, or calls start() / stop() first *)
HandlerReturn ==
    /\ InHandler
    /\ Commit(Run(Pop(St)))
    /\ UNCHANGED <<host, notes, effects, outcome, reply>>

HandlerStart ==
    /\ InHandler
    /\ Commit(Run(start(St)))
    /\ UNCHANGED <<host, notes, effects, outcome, reply>>

HandlerStop ==
    /\ InHandler
    /\ Commit(stop(St))
    /\ UNCHANGED <<host, notes, effects, outcome, reply>>

-----------------------------------------------------------------------------
(* Effect trigger: async testVibration(pattern = 'medium').  The call runs *)
(* up to its await; the platform settles playEffect() in a later task.     *)

VibrationPatterns ==
    [light  |-> [strongMagnitude |-> 30, weakMagnitude |-> 20, duration |-> 100],
     medium |-> [strongMagnitude |-> 60, weakMagnitude |-> 40, duration |-> 200],
     strong |-> [strongMagnitude |-> 100, weakMagnitude |-> 80, duration |-> 300]]

(* The argument left out: the parameter default, pattern = 'medium' *)
Omitted == "(omitted)"
PatternParam(arg) == IF arg = Omitted THEN "medium" ELSE arg

(* Keys that the object literal inherits from Object.prototype: the      *)
(* lookup finds a function, which is truthy and has none of the three    *)
(* properties                                                            *)
InheritedKeys == {"toString", "constructor", "valueOf", "hasOwnProperty"}
Inherited ==
    [strongMagnitude |-> Undefined, weakMagnitude |-> Undefined,
     duration |-> Undefined]

(* patterns[pattern] || patterns.medium *)
PatternOf(pattern) ==
    IF pattern \in DOMAIN VibrationPatterns THEN VibrationPatterns[pattern]
    ELSE IF pattern \in InheritedKeys THEN Inherited
    ELSE VibrationPatterns["medium"]

CanVibrateNoActuatorCheck(a) == ~NoActive(a) /\ host[a] # NoPad

(* if (!this.activeGamepad) return false;                                  *)
(* if (!gamepad || !gamepad.vibrationActuator) return false                *)
CanVibrate(a) ==
    ~NoActive(a) /\ host[a] # NoPad /\ host[a].vibrationActuator # NoActuator

PlayEffect(a, pattern) ==
    LET p == PatternOf(pattern)
    IN [pad |-> a, type |-> "dual-rumble",
        params |-> [startDelay |-> 0, duration |-> p.duration,
                    strongMagnitude |-> p.strongMagnitude,
                    weakMagnitude |-> p.weakMagnitude]]

Refused == [value |-> "false", via |-> "guard"]

SettledUncaught(resolved) ==
    IF resolved THEN [value |-> "true", via |-> "resolve"]
    ELSE [value |-> "throws", via |-> "reject"]

(* return true after the await, return false in the catch *)
Settled(resolved) ==
    IF resolved THEN [value |-> "true", via |-> "resolve"]
    ELSE [value |-> "false", via |-> "catch"]

TestVibrationElects(pattern) ==
    /\ Idle
    /\ IF CanVibrate(activeGamepad)
       THEN /\ Len(effects) < MaxEffects
            /\ effects' = Append(effects,
                                 PlayEffect(activeGamepad, PatternParam(pattern)))
            /\ outcome' = outcome
            /\ activeGamepad' = activeGamepad
       ELSE /\ effects' = effects
            /\ outcome' = Refused
            /\ activeGamepad' = ReElect(gamepads)
    /\ UNCHANGED <<host, notes, pending, gamepads, isRunning, rafId,
                   callbacks, buttonStates, axisStates, stack, log, down, announced, reported, reply>>

TestVibration(pattern) ==
    /\ Idle
    /\ IF CanVibrate(activeGamepad)
       THEN /\ Len(effects) < MaxEffects
            /\ effects' = Append(effects,
                                 PlayEffect(activeGamepad, PatternParam(pattern)))
            /\ outcome' = outcome
       ELSE /\ effects' = effects
            /\ outcome' = Refused
    /\ UNCHANGED <<host, notes, pending, gamepads, activeGamepad, isRunning, rafId,
                   callbacks, buttonStates, axisStates, stack, log, down, announced, reported, reply>>

EffectResolve ==
    /\ Idle
    /\ effects # <<>>
    /\ effects' = Tail(effects)
    /\ outcome' = Settled(TRUE)
    /\ UNCHANGED <<host, notes, pending, gamepads, activeGamepad, isRunning, rafId,
                   callbacks, buttonStates, axisStates, stack, log, down, announced, reported, reply>>

EffectReject ==
    /\ Idle
    /\ effects # <<>>
    /\ effects' = Tail(effects)
    /\ outcome' = Settled(FALSE)
    /\ UNCHANGED <<host, notes, pending, gamepads, activeGamepad, isRunning, rafId,
                   callbacks, buttonStates, axisStates, stack, log, down, announced, reported, reply>>

-----------------------------------------------------------------------------
(* Queries of the app, between tasks: the call and what it returned *)

Asked(call, args, value) ==
    /\ Idle
    /\ reply' = [call |-> call, args |-> args, value |-> value]
    /\ UNCHANGED <<host, notes, pending, gamepads, activeGamepad, isRunning, rafId,
                   callbacks, buttonStates, axisStates, stack, log, down, announced, reported, effects, outcome>>

(* if (!this.activeGamepad) return null;                                  *)
(* return navigator.getGamepads()[this.activeGamepad]: null is the empty *)
(* slot                                                                  *)
getActiveGamepad ==
    IF NoActive(activeGamepad) THEN NoPad ELSE host[activeGamepad]

ActiveGamepadQuery == Asked("getActiveGamepad", <<>>, getActiveGamepad)
ButtonNameQuery(g, n) == Asked("getButtonName", <<g, n>>, getButtonName(g, n))
AxisNameQuery(g, n) == Asked("getAxisName", <<g, n>>, getAxisName(g, n))

-----------------------------------------------------------------------------
(* The gamepad of a host event.  The listeners read its index, id,         *)
(* timestamp and its button and axis counts, never the input values, which *)
(* are kept at rest here.                                                  *)
EventPad(gp) ==
    [gp EXCEPT !.buttons = [j \in 1 .. Len(gp.buttons) |-> Released],
               !.axes = [j \in 1 .. Len(gp.axes) |-> 0]]

(* The host: a device appears in a slot, leaves it, or reports new input *)
Plug(gp) ==
    /\ Idle
    /\ host[gp.index] = NoPad
    /\ Len(notes) < MaxNotes
    /\ host' = [host EXCEPT ![gp.index] = gp]
    /\ notes' = Append(notes, [type |-> "gamepadconnected", gamepad |-> EventPad(gp)])
    /\ UNCHANGED <<pending, gamepads, activeGamepad, isRunning, rafId, callbacks,
                   buttonStates, axisStates, stack, log, down, announced, reported, effects, outcome, reply>>

Unplug(i) ==
    /\ Idle
    /\ host[i] # NoPad
    /\ Len(notes) < MaxNotes
    /\ host' = [host EXCEPT ![i] = NoPad]
    /\ notes' = Append(notes, [type |-> "gamepaddisconnected", gamepad |-> EventPad(host[i])])
    /\ UNCHANGED <<pending, gamepads, activeGamepad, isRunning, rafId, callbacks,
                   buttonStates, axisStates, stack, log, down, announced, reported, effects, outcome, reply>>

Input(gp) ==
    /\ Idle
    /\ host[gp.index] # NoPad
    /\ host[gp.index] # gp
    /\ Len(host[gp.index].buttons) = Len(gp.buttons)
    /\ Len(host[gp.index].axes) = Len(gp.axes)
    /\ host' = [host EXCEPT ![gp.index] = gp]
    /\ UNCHANGED <<notes, pending, gamepads, activeGamepad, isRunning, rafId,
                   callbacks, buttonStates, axisStates, stack, log, down, announced, reported, effects, outcome, reply>>

-----------------------------------------------------------------------------
(* new GamepadManager() on a page with no device in any slot: the fields   *)
(* of the constructor, then init() -> start() -> the first poll().         *)

Fresh == [gamepads |-> <<>>, activeGamepad |-> Null, isRunning |-> FALSE,
          rafId |-> Null, callbacks |-> [c \in CallbackSlots |-> NoHandler],
          buttonStates |-> <<>>, axisStates |-> <<>>,
          pending |-> {}, stack |-> <<>>, log |-> <<>>, ok |-> TRUE]

Init ==
    /\ host = [i \in Slots |-> NoPad]
    /\ notes = <<>>
    /\ effects = <<>>
    /\ outcome = [value |-> "none", via |-> "none"]
    /\ reply = [call |-> "none"]
    /\ down = {}
    /\ announced = {}
    /\ reported = <<>>
    /\ LET r == Run(start(Fresh))
       IN /\ r.ok
          /\ gamepads = r.gamepads
          /\ activeGamepad = r.activeGamepad
          /\ isRunning = r.isRunning
          /\ rafId = r.rafId
          /\ callbacks = r.callbacks
          /\ buttonStates = r.buttonStates
          /\ axisStates = r.axisStates
          /\ pending = r.pending
          /\ stack = r.stack
          /\ log = r.log

-----------------------------------------------------------------------------
(* Inputs *)

Up == [pressed |-> FALSE, value |-> 0]
Down == [pressed |-> TRUE, value |-> 100]
Half == [pressed |-> TRUE, value |-> 50]
Touch == [pressed |-> FALSE, value |-> 10]

Pads(is, bvals, nb, avals, na, tss, vibs) ==
    {Pad(i, "pad", b, a, ts, v) :
        i \in is, b \in [1 .. nb -> bvals], a \in [1 .. na -> avals],
        ts \in tss, v \in vibs}

-----------------------------------------------------------------------------
(* SpecButtons: one device with one button, in slot 0; the press and the   *)
(* release handler come and go.                                            *)

ButtonPads == Pads({0}, {Up, Down, Half, Touch}, 1, {0}, 0, {0}, {NoActuator})

NextButtons ==
    \/ Frame
    \/ Notify
    \/ \E c \in {"onButtonPress", "onButtonRelease"}, h \in {NoHandler, 1} :
          Register(c, h)
    \/ HandlerReturn
    \/ \E gp \in ButtonPads : Plug(gp)
    \/ Unplug(0)
    \/ \E gp \in ButtonPads : Input(gp)

SpecButtons == Init /\ [][NextButtons]_vars

-----------------------------------------------------------------------------
(* SpecAxes: one device with one axis, in slot 0; the axis-change and the  *)
(* full-update handler come and go.                                        *)

AxisVals == {-16, 0, 10, 15, 16, 18, 20, 21, 22, 23, 24}
AxisPads == Pads({0}, {Up}, 0, AxisVals, 1, {0}, {NoActuator})

NextAxes ==
    \/ Frame
    \/ Notify
    \/ \E c \in {"onAxisChange", "onUpdate"}, h \in {NoHandler, 1} : Register(c, h)
    \/ HandlerReturn
    \/ \E gp \in AxisPads : Plug(gp)
    \/ Unplug(0)
    \/ \E gp \in AxisPads : Input(gp)

SpecAxes == Init /\ [][NextAxes]_vars

-----------------------------------------------------------------------------
(* SpecConnect: slot 0 holds a device with one button and one axis or one  *)
(* with two buttons and no axis; the connect handler comes and goes.       *)

ConnectPads == Pads({0}, {Up, Down}, 1, {0, 20}, 1, {0}, {NoActuator})
                  \cup Pads({0}, {Up, Down}, 2, {0}, 0, {0}, {NoActuator})

NextConnect ==
    \/ Frame
    \/ Notify
    \/ \E h \in {NoHandler, 1} : Register("onConnect", h)
    \/ HandlerReturn
    \/ \E gp \in ConnectPads : Plug(gp)
    \/ Unplug(0)
    \/ \E gp \in ConnectPads : Input(gp)

SpecConnect == Init /\ [][NextConnect]_vars

-----------------------------------------------------------------------------
(* SpecRegistry: a device in every slot; connects, disconnects and passes  *)
(* in any order.  The devices have no button and no axis, so that the      *)
(* registry is all a pass and a listener change.                           *)

RegistryPads == Pads(Slots, {Up}, 0, {0}, 0, {0}, {NoActuator})

NextRegistry ==
    \/ Frame
    \/ Notify
    \/ \E gp \in RegistryPads : Plug(gp)
    \/ \E i \in Slots : Unplug(i)

SpecRegistry == Init /\ [][NextRegistry]_vars

-----------------------------------------------------------------------------
(* SpecLoop: start(), stop() and frames, from application code between     *)
(* tasks and from inside the button-press handler.                         *)

LoopPads == Pads({0}, {Up, Down}, 1, {0}, 0, {0}, {NoActuator})

NextLoop ==
    \/ Frame
    \/ Notify
    \/ StartCall
    \/ StopCall
    \/ \E h \in {NoHandler, 1} : Register("onButtonPress", h)
    \/ HandlerReturn
    \/ HandlerStart
    \/ HandlerStop
    \/ \E gp \in LoopPads : Plug(gp)
    \/ Unplug(0)
    \/ \E gp \in LoopPads : Input(gp)

SpecLoop == Init /\ [][NextLoop]_vars

-----------------------------------------------------------------------------
(* Properties *)

Last(q) == q[Len(q)]
Count(lg, slot, pad, index) ==
    Cardinality({n \in 1 .. Len(lg) :
        lg[n].slot = slot /\ lg[n].pad = pad /\ lg[n].data.index = index})
Entries(lg, slot) == {lg[n] : n \in {m \in 1 .. Len(lg) : lg[m].slot = slot}}

(* The step is a frame callback that runs a pass; the step ends a task   *)
(* that ran one                                                          *)
PassStep == Frame /\ isRunning
PassEnd == (PassStep \/ (HandlerReturn /\ log[1].slot = "passBegin")) /\ stack' = <<>>
EdgeCount(b) == IF b THEN 1 ELSE 0

(* C1: a pass over a registered device detects a press of its button     *)
(* exactly when the stored pressed flag is false and the sample's is     *)
(* true, a release exactly when the stored flag is true and the sample's *)
(* is false, and nothing when the flag is unchanged, whatever the analog *)
(* value does; the handler's return adds no event, and when the task     *)
(* ends the stored flag is the sample's, so that the samples             *)
(* F,F,T,T,F give one press at the third and one release at the fifth.   *)
C1_ButtonEdges ==
    [][ /\ (PassStep /\ host[0] # NoPad /\ KeysHas(gamepads, 0)) =>
              LET prev == buttonStates[0][1].pressed
                  cur == host[0].buttons[1].pressed
              IN /\ Count(log', "onButtonPress", 0, 0) = EdgeCount(~prev /\ cur)
                 /\ Count(log', "onButtonRelease", 0, 0) = EdgeCount(prev /\ ~cur)
        /\ InHandler =>
              /\ Count(log', "onButtonPress", 0, 0) = Count(log, "onButtonPress", 0, 0)
              /\ Count(log', "onButtonRelease", 0, 0) = Count(log, "onButtonRelease", 0, 0)
        /\ (PassEnd /\ host[0] # NoPad) =>
              buttonStates'[0][1].pressed = host[0].buttons[1].pressed
      ]_vars

(* A pass over the registered device has ended with the button held at   *)
(* half pressure and no press detected, the press handler being there    *)
C1_Witness ==
    /\ Idle /\ log # <<>> /\ log[1].slot = "passBegin"
    /\ host[0] # NoPad /\ host[0].buttons[1] = Half /\ notes = <<>>
    /\ 0 \in DOMAIN buttonStates /\ buttonStates[0][1] = Half
    /\ Entries(log, "onButtonPress") = {} /\ Entries(log, "onConnect") = {}
    /\ callbacks["onButtonPress"] # NoHandler

(* C2: a pass detects an axis change exactly when the dead-zone-adjusted *)
(* sample and the dead-zone-adjusted stored value differ by more than    *)
(* 0.02; stored 0.20 and sample 0.21 give none, 0.20 and 0.23 give one.  *)
C2_AxisThreshold ==
    [][ (PassStep /\ host[0] # NoPad /\ KeysHas(gamepads, 0)) =>
            LET old == axisStates[0][1]
                cur == host[0].axes[1]
                adj(v) == IF v > 15 \/ v < -15 THEN v ELSE 0
                d == adj(cur) - adj(old)
            IN /\ Count(log', "onAxisChange", 0, 0) = EdgeCount(d > 2 \/ d < -2)
               /\ (old = 20 /\ cur = 21) => Count(log', "onAxisChange", 0, 0) = 0
               /\ (old = 20 /\ cur = 23) => Count(log', "onAxisChange", 0, 0) = 1
      ]_vars

(* The axis-change handler runs for the sample 0.23 after a stored 0.20  *)
C2_Witness ==
    /\ InHandler /\ Top(St).slot = "onAxisChange"
    /\ axisStates[0][1] = 20
    /\ Last(log).data.rawValue = 23

(* C3: the value of every axis-change event and of every axis entry of a *)
(* full-state snapshot is 0 when the raw value v has |v| <= 0.15 and v   *)
(* otherwise, and rawValue is v itself; 0.10 and 0.15 give 0, 0.20 gives *)
(* 0.20.                                                                 *)
C3_DeadZone ==
    LET adj(v) == IF v >= -15 /\ v <= 15 THEN 0 ELSE v
    IN /\ \A e \in Entries(log, "onAxisChange") :
            /\ e.data.value = adj(e.data.rawValue)
            /\ InHandler => e.data.rawValue = host[e.pad].axes[e.data.index + 1]
       /\ \A e \in Entries(log, "onUpdate") :
            /\ \A j \in 1 .. Len(e.data.axes) :
                  e.data.axes[j].value = adj(e.data.axes[j].rawValue)
            /\ InHandler =>
                  /\ Len(e.data.axes) = Len(host[e.pad].axes)
                  /\ \A j \in 1 .. Len(e.data.axes) :
                        e.data.axes[j].rawValue = host[e.pad].axes[j]
       /\ DeadZone(10) = 0 /\ DeadZone(15) = 0 /\ DeadZone(20) = 20
       /\ DeadZone(-15) = 0 /\ DeadZone(-16) = -16

(* A snapshot of an axis at exactly 0.15, after an axis-change event for  *)
(* it in the same pass                                                    *)
C3_Witness ==
    /\ \E e \in Entries(log, "onUpdate") :
          e.data.axes[1].rawValue = 15 /\ e.data.axes[1].value = 0
    /\ \E e \in Entries(log, "onAxisChange") : e.data.rawValue = 15

ZeroButtons(n) == [j \in 1 .. n |-> [pressed |-> FALSE, value |-> 0]]
ZeroAxes(n) == [j \in 1 .. n |-> 0]
ConnectNote == Idle /\ notes # <<>> /\ Head(notes).type = "gamepadconnected"
DisconnectNote == Idle /\ notes # <<>> /\ Head(notes).type = "gamepaddisconnected"
OnTop(stk, slot) == stk # <<>> /\ stk[Len(stk)].k = "handler" /\ stk[Len(stk)].slot = slot

(* C4: right after a connect of device D, by the listener or synthesized *)
(* in a pass, the stored button states of D.index are D's button count   *)
(* of {pressed: false, value: 0} and the stored axis states are D's axis *)
(* count of 0, whatever was stored for the index before; a synthesized   *)
(* connect with no connect handler is followed at once by the change     *)
(* detector, which then detects a press exactly for a held button.       *)
C4_ConnectDefaults ==
    [][ /\ (Notify /\ ConnectNote) =>
              LET D == Head(notes).gamepad
              IN /\ buttonStates'[D.index] = ZeroButtons(Len(D.buttons))
                 /\ axisStates'[D.index] = ZeroAxes(Len(D.axes))
        /\ ((Frame \/ HandlerReturn) /\ Len(stack') = 2 /\ OnTop(stack', "onConnect")) =>
              LET D == host[Last(log').pad]
              IN /\ buttonStates'[D.index] = ZeroButtons(Len(D.buttons))
                 /\ axisStates'[D.index] = ZeroAxes(Len(D.axes))
        /\ (PassStep /\ host[0] # NoPad /\ ~KeysHas(gamepads, 0)
                /\ callbacks["onConnect"] = NoHandler) =>
              \A j \in 1 .. Len(host[0].buttons) :
                 Count(log', "onButtonPress", 0, j - 1)
                     = EdgeCount(host[0].buttons[j].pressed)
      ]_vars

(* The listener has just connected a device whose button is held: the    *)
(* stored state is the default                                           *)
C4_Witness ==
    /\ Idle /\ Len(log) = 1 /\ log[1].slot = "onConnect"
    /\ host[0] # NoPad /\ host[0].buttons[1].pressed
    /\ buttonStates[0][1] = Released
    /\ activeGamepad = 0 /\ notes = <<>>

(* C5: a connect makes the connecting device active only if no device is *)
(* active: with a device active the active device is unchanged, with     *)
(* none the connecting device becomes active.                            *)
C5_ConnectKeepsActive ==
    [][ (Notify /\ ConnectNote) =>
            activeGamepad' = IF activeGamepad # Null THEN activeGamepad
                             ELSE Head(notes).gamepad.index
      ]_vars

(* C6: at most one device is active, and the active device, if there is  *)
(* one, is a key of the registry (whose keys are distinct).              *)
C6_ActiveRegistered ==
    /\ activeGamepad = Null \/ Cardinality({n \in 1 .. Len(gamepads) :
                                              gamepads[n] = activeGamepad}) = 1
    /\ \A m, n \in 1 .. Len(gamepads) : gamepads[m] = gamepads[n] => m = n

(* A device has just been disconnected; two remain, one of them active *)
C6_Witness ==
    /\ Idle /\ Len(log) = 1 /\ log[1].slot = "onDisconnect"
    /\ activeGamepad # Null /\ Len(gamepads) = 2

(* C7: a disconnect of the active device with others remaining makes the *)
(* first remaining device, in insertion order, active; a disconnect of   *)
(* another device leaves the active device unchanged; with 0, 1, 2       *)
(* registered in that order and 1 active, disconnecting 1 makes 0        *)
(* active.                                                               *)
C7_ReElectFirst ==
    [][ (Notify /\ DisconnectNote) =>
            LET index == Head(notes).gamepad.index
                rest == SelectSeq(gamepads, LAMBDA k : k # index)
            IN /\ (activeGamepad = index /\ rest # <<>>) => activeGamepad' = Head(rest)
               /\ activeGamepad # index => activeGamepad' = activeGamepad
               /\ (gamepads = <<0, 1, 2>> /\ activeGamepad = 1 /\ index = 1) =>
                      activeGamepad' = 0
      ]_vars

(* Device 1 was active among 0, 1, 2 and has just been disconnected *)
C7_Witness ==
    /\ Idle /\ log = <<[slot |-> "onDisconnect", to |-> NoHandler, pad |-> 1,
                        data |-> [index |-> 1, timestamp |-> 0]]>>
    /\ gamepads = <<0, 2>> /\ activeGamepad = 0

(* C8: when no device is registered the active device is null and        *)
(* isConnected() is false; isConnected() is true exactly when an active  *)
(* device is set and the registry is not empty.                          *)
C8_NoneConnected ==
    /\ Len(gamepads) = 0 => (activeGamepad = Null /\ ~isConnected(St))
    /\ isConnected(St) <=> (activeGamepad \in Slots /\ gamepads # <<>>)

(* The last registered device has just been disconnected *)
C8_Witness ==
    /\ Idle /\ Len(log) = 1 /\ log[1].slot = "onDisconnect"
    /\ gamepads = <<>> /\ activeGamepad = Null /\ ~isConnected(St)

(* C9: the sampling loop never overlaps with itself: at most one frame   *)
(* request is pending, and no pass begins while another pass executes.   *)
C9_NoOverlap ==
    /\ Cardinality(pending) <= 1
    /\ \A e \in Entries(log, "passBegin") : e.data.inside = 0

(* C10: start() called while the loop is running runs no pass, requests  *)
(* no frame and changes nothing of the manager; and once stop() was      *)
(* called between tasks, a frame callback that still fires samples       *)
(* nothing and requests no frame.                                        *)
C10_StartIdempotent ==
    [][ /\ ((StartCall \/ HandlerStart) /\ isRunning) =>
              /\ UNCHANGED <<pending, rafId, isRunning, gamepads, activeGamepad,
                             callbacks, buttonStates, axisStates, stack>>
              /\ Entries(log', "passBegin") = Entries(log, "passBegin")
                    \/ Entries(log', "passBegin") = {}
        /\ StopCall => (~isRunning' /\ rafId' = Null /\ pending' = pending \ {rafId})
        /\ (Frame /\ ~isRunning) =>
              /\ UNCHANGED <<rafId, isRunning, gamepads, activeGamepad,
                             callbacks, buttonStates, axisStates, stack>>
              /\ log' = <<>>
              /\ \E id \in pending : pending' = pending \ {id}
      ]_vars

(* start() has just been called, between tasks, with the loop running *)
C10_Witness ==
    /\ Idle /\ Len(log) = 1 /\ log[1].slot = "start" /\ log[1].data.running
    /\ isRunning /\ pending = {rafId}

(* C12: whenever the loop is not running (isRunning is false) no frame    *)
(* request is outstanding: rafId is null and the host holds no request of *)
(* poll that was not cancelled.                                           *)
C12_StoppedNoRequest ==
    ~isRunning => (rafId = Null /\ pending = {})

-----------------------------------------------------------------------------
(* Stopping from a handler: one device with one button, a press handler  *)
(* and an update handler, so that a pass has two points where a handler  *)
(* runs and may call stop() or start().                                  *)

NextStop ==
    \/ Frame
    \/ Notify
    \/ StartCall
    \/ StopCall
    \/ \E h \in {NoHandler, 1} : Register("onButtonPress", h)
    \/ \E h \in {NoHandler, 1} : Register("onUpdate", h)
    \/ HandlerReturn
    \/ HandlerStart
    \/ HandlerStop
    \/ \E gp \in LoopPads : Plug(gp)
    \/ Unplug(0)
    \/ \E gp \in LoopPads : Input(gp)

SpecStop == Init /\ [][NextStop]_vars

(* C11: once stop() has been called, between tasks or by a handler that  *)
(* a pass is calling, the sampling loop invokes no handler until start() *)
(* is called: in the events of a task no handler is invoked after a      *)
(* stop() unless a start() lies between them, and a frame callback that  *)
(* fires while the loop is stopped invokes none.                         *)
C11_StoppedSilent ==
    /\ \A m, n \in 1 .. Len(log) :
          (m < n /\ log[m].slot = "stop" /\ log[n].to # NoHandler)
              => \E k \in (m + 1) .. (n - 1) : log[k].slot = "start"
    /\ (log # <<>> /\ log[1].slot = "passBegin") => log[1].data.running

-----------------------------------------------------------------------------
NoButtonHandler ==
    callbacks["onButtonPress"] = NoHandler /\ callbacks["onButtonRelease"] = NoHandler
    /\ callbacks["onConnect"] = NoHandler /\ callbacks["onUpdate"] = NoHandler

(* C17: an event detected while its slot holds no handler is dropped: no *)
(* handler runs for it (a handler runs only for the last detected event, *)
(* which found it registered), the pass goes on to its end and stores    *)
(* the sample, registering a handler afterwards delivers nothing, and a  *)
(* later pass over the same sample detects the event no more.            *)
C17_Dropped ==
    [][ /\ InHandler' =>
              (Last(log').to # NoHandler /\ OnTop(stack', Last(log').slot))
        /\ (PassStep /\ NoButtonHandler) =>
              /\ stack' = <<>> /\ Last(log').slot = "passEnd"
              /\ host[0] # NoPad => buttonStates'[0][1] = host[0].buttons[1]
        /\ (\E c \in CallbackSlots, h \in {NoHandler, 1} : Register(c, h)) =>
              /\ stack' = <<>> /\ log' = <<>>
              /\ UNCHANGED <<buttonStates, gamepads, pending>>
        /\ (PassStep /\ host[0] # NoPad /\ KeysHas(gamepads, 0)
                /\ buttonStates[0][1].pressed = host[0].buttons[1].pressed) =>
              (Entries(log', "onButtonPress") = {}
                   /\ Entries(log', "onButtonRelease") = {})
      ]_vars

(* A pass has ended that detected a press while no press handler was     *)
(* registered, and the sample is stored                                  *)
C17_Witness ==
    /\ Idle /\ log # <<>> /\ Last(log).slot = "passEnd"
    /\ \E e \in Entries(log, "onButtonPress") : e.to = NoHandler
    /\ host[0] # NoPad /\ host[0].buttons[1] = Down
    /\ 0 \in DOMAIN buttonStates /\ buttonStates[0][1] = Down

-----------------------------------------------------------------------------
(* SpecStore: slot 0 holds a device with one button and one axis, or one *)
(* with neither; the press, axis and update handlers come and go.        *)

StorePads == Pads({0}, {Up, Down, Half}, 1, {0, 10, 20}, 1, {0}, {NoActuator})
                 \cup Pads({0}, {Up}, 0, {0}, 0, {0}, {NoActuator})

NextStore ==
    \/ Frame
    \/ Notify
    \/ \E c \in {"onButtonPress", "onAxisChange", "onUpdate"}, h \in {NoHandler, 1} :
          Register(c, h)
    \/ HandlerReturn
    \/ \E gp \in StorePads : Plug(gp)
    \/ Unplug(0)
    \/ \E gp \in StorePads : Input(gp)

SpecStore == Init /\ [][NextStore]_vars

StoredIsSample(bs, as, gp) ==
    /\ gp.index \in DOMAIN bs /\ gp.index \in DOMAIN as
    /\ bs[gp.index] = gp.buttons
    /\ as[gp.index] = gp.axes

(* C18: when processGamepadInput has run for a device (the update        *)
(* handler is being called for it, or the pass has ended) the stored     *)
(* state is the raw sample: the stored button entries are exactly the    *)
(* sample's pressed and value and the stored axis entries are exactly    *)
(* the sample's raw values, whatever events were detected and whatever   *)
(* handlers are registered.                                              *)
C18_StoredIsRaw ==
    [][ /\ (PassEnd /\ host[0] # NoPad) =>
              StoredIsSample(buttonStates', axisStates', host[0])
        /\ (OnTop(stack', "onUpdate") /\ host[0] # NoPad) =>
              StoredIsSample(buttonStates', axisStates', host[0])
      ]_vars

SampleIsStored(bs, as, gp) ==
    /\ gp.index \in DOMAIN bs /\ gp.index \in DOMAIN as
    /\ Len(bs[gp.index]) >= Len(gp.buttons)
    /\ Len(as[gp.index]) >= Len(gp.axes)
    /\ \A j \in 1 .. Len(gp.buttons) : bs[gp.index][j] = gp.buttons[j]
    /\ \A j \in 1 .. Len(gp.axes) : as[gp.index][j] = gp.axes[j]

(* C18, amended: when processGamepadInput has run for a device, for      *)
(* every button and every axis of the sample the stored entry is the     *)
(* sample's pressed and value, and the sample's raw axis value, whatever *)
(* events were detected and whatever handlers are registered; entries    *)
(* stored beyond the sample's length are left as they were.              *)
C18_SampleIsStored ==
    [][ /\ (PassEnd /\ host[0] # NoPad) =>
              SampleIsStored(buttonStates', axisStates', host[0])
        /\ (OnTop(stack', "onUpdate") /\ host[0] # NoPad) =>
              SampleIsStored(buttonStates', axisStates', host[0])
      ]_vars

(* A pass has ended with no handler registered and no event detected:    *)
(* the axis at 0.10, inside the dead zone, is stored as 0.10 and the     *)
(* button at half pressure as it was sampled                             *)
C18_Witness ==
    /\ Idle /\ log # <<>> /\ log[1].slot = "passBegin" /\ Last(log).slot = "passEnd"
    /\ Entries(log, "onAxisChange") = {} /\ Entries(log, "onConnect") = {}
    /\ \A c \in CallbackSlots : callbacks[c] = NoHandler
    /\ host[0] # NoPad /\ host[0].axes = <<10>> /\ host[0].buttons = <<Half>>
    /\ 0 \in DOMAIN axisStates /\ axisStates[0] = <<10>>
    /\ 0 \in DOMAIN buttonStates /\ buttonStates[0] = <<Half>>

-----------------------------------------------------------------------------
(* SpecHandlers: two handlers are registered, one after the other and in *)
(* any order, on any of the six slots, while one device with one button  *)
(* comes, is pressed and goes.                                           *)

Handlers == {1, 2}

NextHandlers ==
    \/ Frame
    \/ Notify
    \/ \E c \in CallbackSlots, h \in Handlers : Register(c, h)
    \/ HandlerReturn
    \/ \E gp \in LoopPads : Plug(gp)
    \/ Unplug(0)
    \/ \E gp \in LoopPads : Input(gp)

SpecHandlers == Init /\ [][NextHandlers]_vars

HandlerFrames(stk) == Cardinality({n \in 1 .. Len(stk) : stk[n].k = "handler"})
Registering == \E c \in CallbackSlots, h \in Handlers : Register(c, h)

(* C16: a slot holds one handler, the last one registered: registering h *)
(* on a slot puts h there, whatever was there, and leaves the other five *)
(* slots as they were; nothing else changes a slot; every event detected *)
(* goes to the handler its slot holds at that moment, and that handler   *)
(* is invoked once for it.                                               *)
C16_LastWins ==
    [][ /\ \A c \in CallbackSlots, h \in Handlers :
              Register(c, h) => callbacks' = [callbacks EXCEPT ![c] = h]
        /\ ~Registering => callbacks' = callbacks
        /\ ~Registering =>
              \A n \in 1 .. Len(log') :
                  log'[n].slot \in CallbackSlots => log'[n].to = callbacks[log'[n].slot]
        /\ InHandler' => OnTop(stack', Last(log').slot)
        /\ HandlerFrames(stack') = EdgeCount(InHandler')
        /\ (HandlerReturn /\ InHandler') => Len(log') > Len(log)
      ]_vars

(* Handler 2 holds the press slot, handler 1 the connect slot, and the   *)
(* press detected by the pass is being handed to handler 2               *)
C16_Witness ==
    /\ OnTop(stack, "onButtonPress") /\ Last(log).slot = "onButtonPress"
    /\ Last(log).to = 2 /\ callbacks["onButtonPress"] = 2
    /\ callbacks["onConnect"] = 1
    /\ Cardinality({n \in 1 .. Len(log) : log[n].slot = "onButtonPress"}) = 1

-----------------------------------------------------------------------------
(* SpecSynth: two slots, each with a device that has one held button and *)
(* one deflected axis and was last updated at time 0 or 1; a device is   *)
(* connected by its notification or by the pass that finds it, whichever *)
(* comes first; the connect and the update handler come and go.          *)

SynthSlots == {0, 1}
SynthPads == Pads(SynthSlots, {Down}, 1, {20}, 1, {0, 1}, {NoActuator})

NextSynth ==
    \/ Frame
    \/ Notify
    \/ \E c \in {"onConnect", "onUpdate"}, h \in {NoHandler, 1} : Register(c, h)
    \/ HandlerReturn
    \/ \E gp \in SynthPads : Plug(gp)
    \/ \E i \in SynthSlots : Unplug(i)

SpecSynth == Init /\ [][NextSynth]_vars

(* What a connect of device D does, from the state before it *)
Connected(D) ==
    /\ gamepads' = (IF KeysHas(gamepads, D.index) THEN gamepads
                    ELSE Append(gamepads, D.index))
    /\ activeGamepad' = (IF activeGamepad = Null \/ activeGamepad = 0
                         THEN D.index ELSE activeGamepad)
    /\ D.index \in DOMAIN buttonStates'
    /\ buttonStates'[D.index] = ZeroButtons(Len(D.buttons))
    /\ D.index \in DOMAIN axisStates'
    /\ axisStates'[D.index] = ZeroAxes(Len(D.axes))
    /\ Last(log') = [slot |-> "onConnect", to |-> callbacks["onConnect"],
                     pad |-> D.index,
                     data |-> [index |-> D.index, id |-> D.id,
                               buttons |-> Len(D.buttons), axes |-> Len(D.axes),
                               timestamp |-> D.timestamp]]

(* C14: a device a pass finds live in a slot and absent from the         *)
(* registry is connected as by its connect notification: in both paths   *)
(* the registry, the active device, the stored button and axis states    *)
(* and the connect event with its index, id, button count, axis count    *)
(* and timestamp are the same function of the state before and of the    *)
(* device.                                                               *)
C14_SynthesizedConnect ==
    [][ /\ (Notify /\ ConnectNote) => Connected(Head(notes).gamepad)
        /\ ((Frame \/ HandlerReturn) /\ OnTop(stack', "onConnect")) =>
              LET D == host[Last(log').pad]
              IN /\ ~KeysHas(gamepads, D.index)
                 /\ Connected(D)
                 /\ Connected(EventPad(D))
      ]_vars

(* A pass has found the device of slot 1, which no notification had      *)
(* announced, and is calling the connect handler for it                  *)
C14_Witness ==
    /\ OnTop(stack, "onConnect") /\ log[1].slot = "passBegin"
    /\ Last(log).pad = 1 /\ Last(log).data.timestamp = 1
    /\ gamepads = <<1>> /\ activeGamepad = 1
    /\ host[1] # NoPad /\ host[1].buttons[1].pressed
    /\ buttonStates[1] = <<Released>> /\ axisStates[1] = <<0>>
    /\ notes # <<>> /\ Head(notes).type = "gamepadconnected"

(* C15: in a pass the full-update event is emitted for one device only   *)
(* and once: the events of a pass hold at most one update event.         *)
C15_SingleUpdate ==
    Cardinality({n \in 1 .. Len(log) : log[n].slot = "onUpdate"}) <= 1

-----------------------------------------------------------------------------
(* SpecVibration: two slots, devices with and without an actuator; the   *)
(* app calls testVibration between tasks and the platform fulfils or     *)
(* rejects each playEffect() later.                                      *)

VibSlots == {0, 1}
VibPads == Pads(VibSlots, {Up}, 0, {0}, 0, {0}, {NoActuator, DualRumble})
PatternArgs == {"light", "medium", "strong", "turbo"}

NextVibration ==
    \/ Frame
    \/ Notify
    \/ \E gp \in VibPads : Plug(gp)
    \/ \E i \in VibSlots : Unplug(i)
    \/ \E p \in PatternArgs : TestVibration(p)
    \/ EffectResolve
    \/ EffectReject

SpecVibration == Init /\ [][NextVibration]_vars

Calling == \E p \in PatternArgs : TestVibration(p)

(* C19: testVibration called with no active device, or with an active    *)
(* device whose host slot has no actuator (or no device), resolves to    *)
(* false at once: it does not throw and it does not call playEffect.     *)
C19_RefusedQuietly ==
    [][ (Calling /\ (\/ activeGamepad = Null
                     \/ host[activeGamepad] = NoPad
                     \/ host[activeGamepad].vibrationActuator = NoActuator)) =>
            (outcome' = [value |-> "false", via |-> "guard"] /\ effects' = effects)
      ]_vars

(* testVibration has returned false for the active device of slot 1,     *)
(* which is live and has no actuator; no effect was asked for            *)
C19_Witness ==
    /\ outcome = [value |-> "false", via |-> "guard"] /\ effects = <<>>
    /\ activeGamepad = 1 /\ host[1] # NoPad
    /\ host[1].vibrationActuator = NoActuator

(* C20: when the platform rejects playEffect, testVibration resolves to  *)
(* false from its catch; the rejection reaches nothing else: no handler  *)
(* is invoked, the manager's fields and the pending frame request are    *)
(* as before, so that the next pass fires as it would have.              *)
C20_RejectionCaught ==
    [][ EffectReject =>
            /\ outcome' = [value |-> "false", via |-> "catch"]
            /\ stack' = <<>>
            /\ UNCHANGED <<gamepads, activeGamepad, isRunning, rafId, callbacks,
                           buttonStates, axisStates, pending, log>>
      ]_vars

(* A rejected effect has been reported as false and the loop is running  *)
(* with its frame request pending                                        *)
C20_Witness ==
    /\ outcome = [value |-> "false", via |-> "catch"]
    /\ isRunning /\ pending = {rafId} /\ Idle
    /\ activeGamepad = 1 /\ host[1] # NoPad

-----------------------------------------------------------------------------
(* SpecLive: the loop is started and never stopped, no handler is        *)
(* registered; a device with or without an actuator comes to slot 1 and  *)
(* goes, and the app calls testVibration, which is refused, fulfilled or *)
(* rejected.                                                             *)

LivePads == Pads({1}, {Up}, 0, {0}, 0, {0}, {NoActuator, DualRumble})

NextLive ==
    \/ Frame
    \/ Notify
    \/ \E gp \in LivePads : Plug(gp)
    \/ Unplug(1)
    \/ \E p \in {"medium", "turbo"} : TestVibration(p)
    \/ EffectResolve
    \/ EffectReject

(* The host's promise for requestAnimationFrame: a request it holds is    *)
(* taken from it and its callback run.  Frame is the only step of        *)
(* NextLive that takes a request from the host.                          *)
FrameFires ==
    /\ Idle
    /\ \E id \in pending : pending' \in SUBSET RafIds /\ id \notin pending'

SpecLive == Init /\ [][NextLive]_vars /\ WF_pending(FrameFires)

(* C13: while the loop runs and stop() is not called, passes go on for   *)
(* ever: whatever testVibration calls were refused or rejected and       *)
(* whatever stale index was looked up, another pass always follows.      *)
C13_PassesGoOn == []<><<PassStep>>_vars

(* A pass has ended, the frame request is pending, and the last          *)
(* testVibration call was refused because the active index 1 is stale:   *)
(* its device has left the slot                                          *)
C13_Witness ==
    /\ Idle /\ isRunning /\ pending = {rafId}
    /\ log # <<>> /\ log[1].slot = "passBegin" /\ Last(log).slot = "passEnd"
    /\ outcome = Refused
    /\ activeGamepad = 1 /\ host[1] = NoPad

-----------------------------------------------------------------------------
(* C21: a testVibration call, from the call to the settling of its       *)
(* effect, whether it is refused, fulfilled or rejected, leaves the      *)
(* registry, the active device, the stored button and axis states, the   *)
(* running flag and the callback slots as they were.                     *)
C21_VibrationFrame ==
    [][ (Calling \/ EffectResolve \/ EffectReject) =>
            UNCHANGED <<gamepads, activeGamepad, buttonStates, axisStates,
                        isRunning, callbacks>>
      ]_vars

(* An effect asked for the active device of slot 1 was fulfilled, and    *)
(* the device is still registered and active                             *)
C21_Witness ==
    /\ outcome = [value |-> "true", via |-> "resolve"] /\ effects = <<>>
    /\ gamepads = <<1>> /\ activeGamepad = 1
    /\ 1 \in DOMAIN buttonStates /\ 1 \in DOMAIN axisStates

-----------------------------------------------------------------------------
(* SpecPending: as SpecLive, with an update handler that comes and goes. *)
(* The host fires every frame request it holds and a handler that was    *)
(* called returns; nothing obliges the platform to settle an effect.     *)

(* The handler on top of the stack returns and the task ends: with one   *)
(* device and the update handler alone no other handler follows in the   *)
(* pass.                                                                 *)
HandlerReturns == InHandler /\ stack' = <<>>

NextPending ==
    \/ Frame
    \/ Notify
    \/ \E h \in {NoHandler, 1} : Register("onUpdate", h)
    \/ HandlerReturn
    \/ \E gp \in LivePads : Plug(gp)
    \/ Unplug(1)
    \/ \E p \in {"medium", "turbo"} : TestVibration(p)
    \/ EffectResolve
    \/ EffectReject

SpecPending ==
    Init /\ [][NextPending]_vars /\ WF_pending(FrameFires) /\ WF_stack(HandlerReturns)

(* C22: the loop does not wait for an effect: a frame callback that      *)
(* fires while a playEffect call is unsettled runs its pass, leaves the  *)
(* call unsettled and hands the update event of the live active device   *)
(* to the update handler; and if the call stays unsettled for ever,      *)
(* passes are run for ever.                                              *)
C22_LoopNeverWaits ==
    /\ [][ (PassStep /\ effects # <<>>) =>
              /\ effects' = effects
              /\ log' # <<>> /\ log'[1].slot = "passBegin"
              /\ (activeGamepad = 1 /\ host[1] # NoPad
                      /\ callbacks["onUpdate"] # NoHandler) =>
                    (OnTop(stack', "onUpdate") /\ Last(log').pad = 1)
              /\ callbacks["onUpdate"] = NoHandler =>
                    (Last(log').slot = "passEnd" /\ pending' # {})
         ]_vars
    /\ (<>[](effects # <<>>) => []<><<PassStep /\ effects # <<>>>>_vars)

(* An effect is unsettled and a pass is handing the update event of the  *)
(* active device to the handler                                          *)
C22_Witness ==
    /\ effects # <<>> /\ OnTop(stack, "onUpdate")
    /\ log[1].slot = "passBegin" /\ Last(log).pad = 1
    /\ activeGamepad = 1 /\ isRunning

-----------------------------------------------------------------------------
(* The step changes the registry, the active device or a stored state *)
Mutates ==
    gamepads' # gamepads \/ activeGamepad' # activeGamepad
        \/ buttonStates' # buttonStates \/ axisStates' # axisStates

(* A pass executes during the step: a frame callback runs one, a handler *)
(* that a pass called acts or returns, or start() runs the first pass    *)
PassRuns ==
    \/ PassStep
    \/ (HandlerReturn \/ HandlerStart \/ HandlerStop) /\ Passes(stack) # {}
    \/ (StartCall \/ HandlerStart) /\ ~isRunning

(* C23: the registry, the active device and the stored button and axis   *)
(* states change only in steps in which a sampling pass executes.        *)
C23_MutationsInPass ==
    [][Mutates => PassRuns]_vars

(* C23, amended: the registry, the active device and the stored states   *)
(* change only in steps in which a sampling pass executes or the         *)
(* listener of a connect or disconnect notification runs; stop(),        *)
(* start() while running, the registration of a handler and the host's   *)
(* own steps change none of them, and a listener runs only between       *)
(* tasks, never while a pass executes.                                   *)
C23_MutationsInPassOrListener ==
    [][ /\ Mutates => (PassRuns \/ Notify)
        /\ Notify => Passes(stack) = {}
      ]_vars

(* The listener of the disconnect notification has just removed the only *)
(* device from the registry, between two passes                          *)
C23_Witness ==
    /\ Idle /\ Len(log) = 1 /\ log[1].slot = "onDisconnect"
    /\ gamepads = <<>> /\ activeGamepad = Null /\ isRunning

-----------------------------------------------------------------------------
(* SpecDisconnect: two slots whose devices have one held button and one  *)
(* deflected axis; devices come and go, passes store their samples, and  *)
(* the disconnect handler comes and goes.                                *)

NextDisconnect ==
    \/ Frame
    \/ Notify
    \/ \E h \in {NoHandler, 1} : Register("onDisconnect", h)
    \/ HandlerReturn
    \/ \E gp \in SynthPads : Plug(gp)
    \/ \E i \in SynthSlots : Unplug(i)

SpecDisconnect == Init /\ [][NextDisconnect]_vars

(* C24: the disconnect of index i removes i from the registry and from   *)
(* the stored button and axis states, leaves the entries of every other  *)
(* index as they were, and then emits the one disconnect event, which    *)
(* carries i: when the handler is called the removal is done.            *)
C24_DisconnectRemoves ==
    [][ (Notify /\ DisconnectNote) =>
            LET D == Head(notes).gamepad
                i == D.index
            IN /\ gamepads' = SelectSeq(gamepads, LAMBDA k : k # i)
               /\ DOMAIN buttonStates' = DOMAIN buttonStates \ {i}
               /\ DOMAIN axisStates' = DOMAIN axisStates \ {i}
               /\ \A k \in DOMAIN buttonStates' : buttonStates'[k] = buttonStates[k]
               /\ \A k \in DOMAIN axisStates' : axisStates'[k] = axisStates[k]
               /\ log' = <<[slot |-> "onDisconnect", to |-> callbacks["onDisconnect"],
                            pad |-> i,
                            data |-> [index |-> i, timestamp |-> D.timestamp]]>>
               /\ callbacks["onDisconnect"] # NoHandler => OnTop(stack', "onDisconnect")
      ]_vars

(* The disconnect handler is being called for slot 0: slot 0 is gone     *)
(* from the registry and the states, slot 1 is there with the sample a   *)
(* pass stored for it                                                    *)
C24_Witness ==
    /\ OnTop(stack, "onDisconnect") /\ Len(log) = 1 /\ log[1].data.index = 0
    /\ gamepads = <<1>> /\ DOMAIN buttonStates = {1} /\ DOMAIN axisStates = {1}
    /\ buttonStates[1] = <<Down>> /\ axisStates[1] = <<20>>

-----------------------------------------------------------------------------
(* SpecNames: the app asks for the name of a button or of an axis, for   *)
(* any device index and any index up to MaxIndex.                        *)

NextNames ==
    \/ \E g \in Slots, n \in 0 .. MaxIndex : ButtonNameQuery(g, n)
    \/ \E g \in Slots, n \in 0 .. MaxIndex : AxisNameQuery(g, n)

SpecNames == Init /\ [][NextNames]_vars

(* C25: getButtonName returns the table name for the indices 0..14 and   *)
(* "Btn N" for any other index N, getAxisName the table name for 0..5    *)
(* and "Axis N" for any other; 20 gives "Btn 20" and 9 gives "Axis 9";   *)
(* the device index makes no difference.                                 *)
C25_Names ==
    /\ reply.call = "getButtonName" =>
          LET n == reply.args[2]
          IN /\ n \in 0 .. 14 =>
                   reply.value = <<"A", "B", "X", "Y", "LB", "RB", "LT", "RT", "Back",
                                   "Start", "LS", "RS", "Guide", "Share",
                                   "Touchpad">>[n + 1]
             /\ n \notin 0 .. 14 => reply.value = "Btn " \o ToString(n)
             /\ n = 20 => reply.value = "Btn 20"
             /\ \A g \in Slots : getButtonName(g, n) = reply.value
    /\ reply.call = "getAxisName" =>
          LET n == reply.args[2]
          IN /\ n \in 0 .. 5 =>
                   reply.value = <<"LS-X", "LS-Y", "RS-X", "RS-Y", "LT", "RT">>[n + 1]
             /\ n \notin 0 .. 5 => reply.value = "Axis " \o ToString(n)
             /\ n = 9 => reply.value = "Axis 9"
             /\ \A g \in Slots : getAxisName(g, n) = reply.value

(* The name of axis 9 of device 1 was asked for, an index outside the    *)
(* table                                                                 *)
C25_Witness ==
    reply = [call |-> "getAxisName", args |-> <<1, 9>>, value |-> "Axis 9"]

-----------------------------------------------------------------------------
(* SpecTriggers: one device with six axes in slot 0: the stick axis 0 and *)
(* the trigger axes 4 and 5 move, also between 0.05 and 0.15; the axis    *)
(* and the update handler come and go.                                    *)

TriggerPads ==
    {Pad(0, "pad", <<>>, <<s, 0, 0, 0, l, r>>, 0, NoActuator) :
        s \in {0, 16}, l \in {0, 6, 10, 16}, r \in {0, 10}}

NextTriggers ==
    \/ Frame
    \/ Notify
    \/ \E c \in {"onAxisChange", "onUpdate"}, h \in {NoHandler, 1} : Register(c, h)
    \/ HandlerReturn
    \/ \E gp \in TriggerPads : Plug(gp)
    \/ Unplug(0)
    \/ \E gp \in TriggerPads : Input(gp)

SpecTriggers == Init /\ [][NextTriggers]_vars

(* C26: for every axis index, the trigger axes 4 and 5 included, the     *)
(* value of an axis-change event and of a snapshot entry is the raw      *)
(* value filtered with the threshold 0.15, and a pass detects a change   *)
(* of the axis exactly when the values so filtered differ by more than   *)
(* 0.02; the constant 0.05 plays no part.                                *)
C26_OneDeadZone ==
    [][ LET adj(v) == IF v >= -15 /\ v <= 15 THEN 0 ELSE v
        IN /\ \A e \in Entries(log', "onAxisChange") :
                e.data.value = adj(e.data.rawValue)
           /\ \A e \in Entries(log', "onUpdate") :
                \A j \in 1 .. Len(e.data.axes) :
                    e.data.axes[j].value = adj(e.data.axes[j].rawValue)
           /\ (PassStep /\ host[0] # NoPad /\ KeysHas(gamepads, 0)
                   /\ callbacks["onAxisChange"] = NoHandler
                   /\ callbacks["onUpdate"] = NoHandler) =>
                \A j \in 1 .. Len(host[0].axes) :
                    Count(log', "onAxisChange", 0, j - 1) =
                        EdgeCount(Abs(adj(host[0].axes[j]) - adj(axisStates[0][j])) > 2)
      ]_vars

(* The update handler is given a snapshot whose trigger axis 4 is at     *)
(* 0.10 raw, above 0.05 and inside the dead zone, with the value 0       *)
C26_Witness ==
    /\ OnTop(stack, "onUpdate")
    /\ Last(log).data.axes[5].rawValue = 10 /\ Last(log).data.axes[5].value = 0
    /\ Last(log).data.axes[5].name = "LT"
    /\ Entries(log, "onAxisChange") = {}

-----------------------------------------------------------------------------
(* SpecPatterns: the device of slot 1 has an actuator and is active; the *)
(* app calls testVibration with one of the three names, with no          *)
(* argument, or with another string.                                     *)

PatternPads == Pads({1}, {Up}, 0, {0}, 0, {0}, {DualRumble})
AnyPatternArgs == {"light", "medium", "strong", Omitted, "turbo", "", "toString"}

NextPatterns ==
    \/ Frame
    \/ Notify
    \/ \E gp \in PatternPads : Plug(gp)
    \/ Unplug(1)
    \/ \E p \in AnyPatternArgs : TestVibration(p)
    \/ EffectResolve
    \/ EffectReject

SpecPatterns == Init /\ [][NextPatterns]_vars

(* C27: a testVibration call that reaches playEffect plays the triple of *)
(* the table for light, medium and strong (0.3 / 0.2 / 100 ms,           *)
(* 0.6 / 0.4 / 200 ms, 1.0 / 0.8 / 300 ms) and the medium triple when    *)
(* the argument is left out or is any other value.                       *)
C27_PatternTable ==
    [][ \A p \in AnyPatternArgs :
          (TestVibration(p) /\ Len(effects') > Len(effects)) =>
              LET played == Last(effects')
                  triple == <<played.params.strongMagnitude,
                              played.params.weakMagnitude, played.params.duration>>
              IN /\ played.type = "dual-rumble" /\ played.params.startDelay = 0
                 /\ p = "light" => triple = <<30, 20, 100>>
                 /\ p = "strong" => triple = <<100, 80, 300>>
                 /\ p \notin {"light", "strong"} => triple = <<60, 40, 200>>
      ]_vars

-----------------------------------------------------------------------------
(* SpecQueries: devices come to the slots 0 and 1 and go, and the app    *)
(* asks for the active device between tasks, also when the active index  *)
(* is stale: its device has left the slot and the notification is not    *)
(* handled yet.                                                          *)

QueryPads == Pads({0, 1}, {Up, Down}, 1, {0}, 0, {0}, {NoActuator})

NextQueries ==
    \/ Frame
    \/ Notify
    \/ \E gp \in QueryPads : Plug(gp)
    \/ \E i \in {0, 1} : Unplug(i)
    \/ ActiveGamepadQuery

SpecQueries == Init /\ [][NextQueries]_vars

(* C28: getActiveGamepad() returns null when no device is active and     *)
(* otherwise the host's current slot of the active index, whatever the   *)
(* index: the live device, or null when the slot is empty.               *)
C28_ActiveQuery ==
    [][ ActiveGamepadQuery =>
            reply'.value = (IF activeGamepad = Null THEN NoPad
                            ELSE host[activeGamepad])
      ]_vars

-----------------------------------------------------------------------------
(* The order of the events of one pass: poll() lines 160-178 and           *)
(* processGamepadInput() lines 192-255.                                    *)

OrderPads ==
    Pads({0}, {Up, Down}, 2, {20}, 1, {0}, {NoActuator})
        \cup Pads({1}, {Up}, 0, {20}, 1, {0}, {NoActuator})

NextOrder ==
    \/ Frame
    \/ Notify
    \/ \E h \in {NoHandler, 1} : Register("onUpdate", h)
    \/ \E h \in {NoHandler, 1} : Register("onButtonPress", h)
    \/ HandlerReturn
    \/ \E gp \in OrderPads : Plug(gp)
    \/ \E i \in {0, 1} : Unplug(i)
    \/ \E gp \in OrderPads : Input(gp)

SpecOrder == Init /\ [][NextOrder]_vars

(* The place of an event among the events of its device *)
Phase(e) ==
    CASE e.slot = "onConnect" -> 0
      [] e.slot \in {"onButtonPress", "onButtonRelease"} -> 1
      [] e.slot = "onAxisChange" -> 2
      [] e.slot = "onUpdate" -> 3

Precedes(e1, e2) ==
    \/ e1.pad < e2.pad
    \/ /\ e1.pad = e2.pad
       /\ \/ Phase(e1) < Phase(e2)
          \/ /\ Phase(e1) = Phase(e2)
             /\ Phase(e1) \in {1, 2}
             /\ e1.data.index < e2.data.index

InPassLog == \E n \in 1 .. Len(log) : log[n].slot = "passBegin"
PassEvents == {n \in 1 .. Len(log) : log[n].slot \in CallbackSlots}

(* C29: the events of one pass come slot by slot in increasing index; for  *)
(* one device the connect event comes first, then the button events by     *)
(* increasing button index, then the axis events by increasing axis index, *)
(* then the update event; the frame request comes after all of them, and   *)
(* no request is outstanding while a handler of the pass runs.             *)
C29_PassOrder ==
    InPassLog =>
        /\ \A m, n \in PassEvents : m < n => Precedes(log[m], log[n])
        /\ \A n \in 1 .. Len(log) : log[n].slot = "passEnd" => n = Len(log)
        /\ InHandler => pending = {}
        /\ (Idle /\ isRunning) => log[Len(log)].slot = "passEnd" /\ pending = {rafId}

C29_Witness ==
    /\ Idle
    /\ InPassLog
    /\ \E c, p, r, a, u \in PassEvents :
          /\ log[c].slot = "onConnect"
          /\ log[p].slot = "onButtonPress" /\ log[p].pad = log[c].pad
          /\ log[r].slot = "onButtonPress" /\ log[r].pad = log[c].pad /\ r # p
          /\ log[a].slot = "onAxisChange" /\ log[a].pad = log[c].pad
          /\ log[u].slot = "onUpdate" /\ log[u].pad = log[c].pad

-----------------------------------------------------------------------------
(* Press and release events of one button over the passes and the connect  *)
(* notifications: lines 53-74, 160-173 and 188-228.                        *)

PressPads == Pads({0, 1}, {Up, Down}, 1, {0}, 0, {0}, {NoActuator})

NextPress ==
    \/ Frame
    \/ Notify
    \/ \E h \in {NoHandler, 1} : Register("onButtonPress", h)
    \/ HandlerReturn
    \/ \E gp \in PressPads : Plug(gp)
    \/ \E i \in {0, 1} : Unplug(i)
    \/ \E gp \in PressPads : Input(gp)

SpecPress == Init /\ [][NextPress]_vars

(* No event of es is a press of a button that is down in h already *)
RECURSIVE Alternates(_, _)
Alternates(h, es) ==
    \/ es = <<>>
    \/ /\ ~(Head(es).slot = "onButtonPress"
            /\ <<Head(es).pad, Head(es).data.index>> \in h)
       /\ Alternates(After(h, Head(es)), Tail(es))

(* C30: a press event of a button of a device comes only when the latest   *)
(* event of that button, since the last disconnect of the device, is not   *)
(* a press: between two presses there is a release, whatever the           *)
(* interleaving of passes and connect notifications.                       *)
C30_PressReleaseAlternate ==
    [][(Frame \/ Notify \/ HandlerReturn) => Alternates(down, Added([log |-> log']))]_vars

-----------------------------------------------------------------------------
(* Connect events of one device over the passes and the notifications:     *)
(* lines 41-48, 53-74 and 164-169.                                         *)

(* No event of es is a connect of a device that h holds already *)
RECURSIVE ConnectsOnce(_, _)
ConnectsOnce(h, es) ==
    \/ es = <<>>
    \/ /\ ~(Head(es).slot = "onConnect" /\ Head(es).pad \in h)
       /\ ConnectsOnce(Announce(h, Head(es)), Tail(es))

(* C31: a connect event of a device comes only when no connect event of    *)
(* that device came since its last disconnect, whatever the interleaving   *)
(* of passes and connect notifications.                                    *)
C31_ConnectOnce ==
    [][(Frame \/ Notify \/ HandlerReturn) =>
          ConnectsOnce(announced, Added([log |-> log']))]_vars

-----------------------------------------------------------------------------
(* A handler that throws: no call of a handler in the manager is inside a  *)
(* try block (lines 65, 89, 175-177, 199-216, 241-250), so the exception   *)
(* leaves every activation on the stack and ends the task where it is.     *)

HandlerThrow ==
    /\ InHandler
    /\ Commit([St EXCEPT !.stack = <<>>])
    /\ UNCHANGED <<host, notes, effects, outcome, reply>>

ThrowPads == Pads({0, 1}, {Up, Down}, 1, {0}, 0, {0}, {NoActuator})

NextThrow ==
    \/ Frame
    \/ Notify
    \/ StartCall
    \/ \E c \in {"onConnect", "onButtonPress"}, h \in {NoHandler, 1} : Register(c, h)
    \/ HandlerReturn
    \/ HandlerThrow
    \/ \E gp \in ThrowPads : Plug(gp)
    \/ \E i \in {0, 1} : Unplug(i)
    \/ \E gp \in ThrowPads : Input(gp)

SpecThrow == Init /\ [][NextThrow]_vars

(* C32: whenever the loop is marked as running and no task is executing,   *)
(* a frame request is outstanding, also after a handler threw in a pass.   *)
C32_LoopKept == (isRunning /\ Idle) => pending # {}

-----------------------------------------------------------------------------
(* C33: a testVibration call made while an active device is set, whatever  *)
(* its index, and the host slot of that index holds a device with an       *)
(* actuator, is not refused: it calls playEffect, and when the platform    *)
(* resolves that call the result is true.                                  *)
C33_VibratesAnyIndex ==
    [][/\ (/\ \E p \in PatternArgs : TestVibration(p)
           /\ activeGamepad # Null
           /\ host[activeGamepad] # NoPad
           /\ host[activeGamepad].vibrationActuator # NoActuator)
          => (effects' # effects /\ outcome' = outcome)
       /\ EffectResolve => outcome'.value = "true"]_vars

-----------------------------------------------------------------------------
(* The registry and the active device: lines 53-96 and 435-437.            *)

(* C34: the registry holds a device exactly when the active device is not  *)
(* null, so isConnected() is true exactly when a device is registered.     *)
C34_RegistryIffActive ==
    /\ Len(gamepads) > 0 <=> activeGamepad # Null
    /\ isConnected(St) <=> Len(gamepads) > 0

C34_Witness ==
    /\ Idle
    /\ Len(gamepads) = 1
    /\ activeGamepad = 1
    /\ \E n \in 1 .. Len(log) : log[n].slot = "onDisconnect" /\ log[n].pad = 0

-----------------------------------------------------------------------------
(* C35: the devices with stored button states, the devices with stored     *)
(* axis states and the registered devices are the same set in every state, *)
(* after any sequence of connects, disconnects and passes.                 *)
C35_StateForRegistered ==
    /\ DOMAIN buttonStates = KeySet(gamepads)
    /\ DOMAIN axisStates = KeySet(gamepads)

C35_Witness ==
    /\ Idle
    /\ KeySet(gamepads) = {1}
    /\ DOMAIN buttonStates = {1}
    /\ buttonStates[1][1].pressed
    /\ \E n \in 1 .. Len(log) : log[n].slot = "onDisconnect" /\ log[n].pad = 0

-----------------------------------------------------------------------------
(* The axis value the application holds against the value of the device:   *)
(* lines 231-255.                                                          *)

DriftPads == {Pad(0, "pad", <<>>, <<v>>, 0, NoActuator) : v \in {0, 20, 22, 24}}

NextDrift ==
    \/ Frame
    \/ Notify
    \/ Register("onAxisChange", 1)
    \/ HandlerReturn
    \/ \E gp \in DriftPads : Plug(gp)
    \/ Unplug(0)
    \/ \E gp \in DriftPads : Input(gp)

SpecDrift == Init /\ [][NextDrift]_vars

(* A step with which a pass ends *)
PassEnds ==
    /\ Frame \/ HandlerReturn
    /\ stack' = <<>>
    /\ log' # <<>>
    /\ log'[Len(log')].slot = "passEnd"

(* C36: when a pass ends with an axis-change handler registered, the       *)
(* value of the latest axis-change event of                                *)
(* every axis of every live device, 0 if there was none since its          *)
(* connect, is within 0.02 of the dead-zone-adjusted value of the axis.    *)
C36_EventsFollowAxis ==
    [][(PassEnds /\ callbacks["onAxisChange"] # NoHandler) =>
          \A i \in Slots : host[i] # NoPad =>
              \A j \in 1 .. Len(host[i].axes) :
                  Abs(MapGet(reported', <<i, j - 1>>, 0) - DeadZone(host[i].axes[j]))
                      <= AXIS_CHANGE]_vars

-----------------------------------------------------------------------------
(* C37: a step of a sampling pass removes no device: every registry key    *)
(* and every key of the stored states is kept, and an active device whose  *)
(* host slot is empty stays the active device; only a disconnect           *)
(* notification of its index removes it.                                   *)
C37_PassKeepsDevices ==
    [][(PassStep \/ (HandlerReturn /\ Passes(stack) # {})) =>
          /\ KeySet(gamepads) \subseteq KeySet(gamepads')
          /\ DOMAIN buttonStates \subseteq DOMAIN buttonStates'
          /\ DOMAIN axisStates \subseteq DOMAIN axisStates'
          /\ (activeGamepad # Null /\ host[activeGamepad] = NoPad)
                => activeGamepad' = activeGamepad]_vars

====
